---- MODULE Spec2Model ----
(***************************************************************************)
(* Model of the benchmark / baseline harness of the Ditto DQL terminal     *)
(* (src/src/index.ts): version ordering, the comparison-baseline lookup,   *)
(* the timed benchmark loop and the line handlers of .bench, .benchmark,   *)
(* .benchmark_all and .benchmark_baseline running against the engine.      *)
(***************************************************************************)
EXTENDS Integers, Sequences, FiniteSets, TLC

VARIABLES
    benchmarks,   \* the suite loaded from benchmarks.json at start-up
    typist,       \* "patient": lines are typed at the prompt only; "eager": at any time
    budget,       \* number of command lines typed in the session
    procs,        \* one record per invocation of the rl.on('line') handler
    store,        \* the benchmark_baselines collection
    question,     \* the invocation whose rl.question callback is pending, 0 if none
    clock,        \* the time of new Date() at the next save
    selStored,    \* versions stored for one hash (input of the selection)
    selCurrent,   \* the current version (input of the selection)
    selResult,    \* what getComparisonBaselines returned, <<"none">> before the call
    cmpBaseline,  \* a stored mean (input of the comparison views)
    cmpCurrent,   \* the mean it is compared with (input of the comparison views)
    cmpResult,    \* what each comparison view rendered for the pair
    hashDefs,     \* two benchmark definitions (input of generateBenchmarkHash)
    hashResult,   \* their fingerprints
    tblInput,     \* the outcome of each benchmark's run (input of the tables)
    tblResult,    \* the tables printed by .benchmark_all and .benchmark_show
    impFile,      \* the lines of benchmark_baselines.ndjson
    impState,     \* importBaselines: lines done, successCount, errorCount
    statTimes,    \* the times array of one benchmarkQuery, in insertion order
    statDigest    \* the statistics computed from it

vars == <<benchmarks, typist, budget, procs, store, question, clock,
          selStored, selCurrent, selResult, cmpBaseline, cmpCurrent, cmpResult,
          hashDefs, hashResult, tblInput, tblResult, impFile, impState,
                   statTimes, statDigest>>

(***************************************************************************)
(* Strings are sequences of character codes, so that localeCompare and the *)
(* regular expression of parseVersion operate on the text of a version.    *)
(***************************************************************************)
Dot == 46
Zero == 48

IsDigit(c) == c >= Zero /\ c <= Zero + 9

RECURSIVE NumToStr(_)
NumToStr(n) ==
    IF n < 10 THEN <<Zero + n>>
    ELSE NumToStr(n \div 10) \o <<Zero + (n % 10)>>

\* the text "M.m.p" of a release
VersionString(M, m, p) ==
    NumToStr(M) \o <<Dot>> \o NumToStr(m) \o <<Dot>> \o NumToStr(p)

\* "unknown", the fallback of getDittoVersion
UnknownVersion == <<117, 110, 107, 110, 111, 119, 110>>

\* length of the longest prefix of s from position i made of digits
RECURSIVE DigitRun(_, _)
DigitRun(s, i) ==
    IF i <= Len(s) /\ IsDigit(s[i]) THEN 1 + DigitRun(s, i + 1) ELSE 0

\* parseInt of the digits s[i .. i+n-1]
RECURSIVE ParseDigits(_, _, _)
ParseDigits(s, i, n) ==
    IF n = 0 THEN 0
    ELSE ParseDigits(s, i, n - 1) * 10 + (s[i + n - 1] - Zero)

\* parseVersion: /^(\d+)\.(\d+)\.(\d+)/ or the 0.0.0 fallback
parseVersion(version) ==
    LET n1 == DigitRun(version, 1)
        d1 == 1 + n1
        n2 == DigitRun(version, d1 + 1)
        d2 == d1 + 1 + n2
        n3 == DigitRun(version, d2 + 1)
        ok == /\ n1 > 0
              /\ d1 <= Len(version) /\ version[d1] = Dot
              /\ n2 > 0
              /\ d2 <= Len(version) /\ version[d2] = Dot
              /\ n3 > 0
    IN  IF ~ok THEN [major |-> 0, minor |-> 0, patch |-> 0, raw |-> version]
        ELSE [major |-> ParseDigits(version, 1, n1),
              minor |-> ParseDigits(version, d1 + 1, n2),
              patch |-> ParseDigits(version, d2 + 1, n3),
              raw   |-> version]

\* compareVersions: negative when a is the more recent version
compareVersions(a, b) ==
    LET vA == parseVersion(a)
        vB == parseVersion(b)
    IN  IF vA.major # vB.major THEN vB.major - vA.major
        ELSE IF vA.minor # vB.minor THEN vB.minor - vA.minor
        ELSE vB.patch - vA.patch

\* a.localeCompare(b) on the characters used by version tags
RECURSIVE localeCompare(_, _)
localeCompare(a, b) ==
    IF a = <<>> /\ b = <<>> THEN 0
    ELSE IF a = <<>> THEN -1
    ELSE IF b = <<>> THEN 1
    ELSE IF Head(a) < Head(b) THEN -1
    ELSE IF Head(a) > Head(b) THEN 1
    ELSE localeCompare(Tail(a), Tail(b))

AlphaBefore(x, y) == localeCompare(x, y) < 0

\* Array.prototype.sort((a, b) => a.localeCompare(b)) of distinct tags
RECURSIVE SortAlpha(_)
SortAlpha(S) ==
    IF S = {} THEN <<>>
    ELSE LET first == CHOOSE x \in S : \A y \in S \ {x} : AlphaBefore(x, y)
         IN  <<first>> \o SortAlpha(S \ {first})

(***************************************************************************)
(* The baseline collection.  A record is keyed by (hash, ditto_version);   *)
(* the versions stored for one hash are the items of the SELECT by hash.   *)
(***************************************************************************)

\* variant: the record of the current version is not filtered out
getComparisonBaselinesUnfiltered(stored, currentVersion, throws) ==
    IF throws THEN <<>>
    ELSE IF stored = {} THEN <<>>
    ELSE SortAlpha(stored)

\* getComparisonBaselines: the versions of every stored baseline of the hash
\* except the current version, sorted alphabetically; [] when the query
\* throws or returns nothing
getComparisonBaselines(stored, currentVersion, throws) ==
    IF throws THEN <<>>
    ELSE IF stored = {} THEN <<>>
    ELSE SortAlpha({v \in stored : v # currentVersion})

\* the version of the record that getBaseline returns for the current
\* version (items[0]), none when there is no such record or the query throws
currentBaseline(stored, currentVersion, throws) ==
    IF ~throws /\ currentVersion \in stored THEN <<currentVersion>> ELSE <<>>

\* Array.prototype.sort((a, b) => compareVersions(a, b)), stable
RECURSIVE SortByVersion(_)
SortByVersion(s) ==
    IF s = <<>> THEN <<>>
    ELSE LET sorted == SortByVersion(SubSeq(s, 1, Len(s) - 1))
             x      == s[Len(s)]
             k      == Cardinality({j \in 1..Len(sorted) :
                                       compareVersions(sorted[j], x) <= 0})
         IN  SubSeq(sorted, 1, k) \o <<x>> \o SubSeq(sorted, k + 1, Len(sorted))

\* the baselines listed after a run: the current baseline, when there is one,
\* then the comparison baselines by compareVersions
allBaselines(current, comparisonBaselines, currentVersion) ==
    LET pushed == current \o comparisonBaselines
    IN  SelectSeq(pushed, LAMBDA v : v = currentVersion)
        \o SortByVersion(SelectSeq(pushed, LAMBDA v : v # currentVersion))

(***************************************************************************)
(* Numbers.  A JavaScript number is kept as an exact fraction; NaN and     *)
(* undefined are the results of reducing an empty sample array.            *)
(***************************************************************************)
Num(n, d) == [kind |-> "num", num |-> n, den |-> d]
NaN == [kind |-> "NaN", num |-> 0, den |-> 0]
Undefined == [kind |-> "undefined", num |-> 0, den |-> 0]

\* x !== -1
IsNotMinusOne(x) == ~(x.kind = "num" /\ x.num = -(x.den))

RECURSIVE SumSeq(_)
SumSeq(s) == IF s = <<>> THEN 0 ELSE Head(s) + SumSeq(Tail(s))

\* variant: the array is left in insertion order
SortTimesSkipped(s) == s

\* times.sort((a, b) => a - b)
SortTimes(s) ==
    [k \in 1..Len(s) |->
        CHOOSE v \in {s[j] : j \in 1..Len(s)} :
            /\ Cardinality({j \in 1..Len(s) : s[j] < v}) < k
            /\ k <= Cardinality({j \in 1..Len(s) : s[j] <= v})]

\* times[idx] with a 0-based index; undefined outside the array
At(s, idx) == IF idx >= 0 /\ idx < Len(s) THEN Num(s[idx + 1], 1) ELSE Undefined

\* floor of the square root
SqrtFloor(n) == CHOOSE r \in 0..n : r * r <= n /\ (r + 1) * (r + 1) > n

\* the digest that benchmarkQuery returns when a timed run threw
SentinelDigest ==
    [mean |-> Num(-1, 1), median |-> Num(-1, 1), min |-> Num(-1, 1),
     max |-> Num(-1, 1), stdDev |-> Num(-1, 1), p95 |-> Num(-1, 1),
     p99 |-> Num(-1, 1), resultCount |-> -1, times |-> <<>>]

\* the statistics of benchmarkQuery over the sorted times
DigestOfSorted(times, resultCount) ==
    LET n     == Len(times)
        sum   == SumSeq(times)
        \* sum over (t - mean)^2, times n^2
        sq    == SumSeq([j \in 1..n |-> (times[j] * n - sum) * (times[j] * n - sum)])
    IN  [mean   |-> IF n = 0 THEN NaN ELSE Num(sum, n),
         median |-> IF n = 0 THEN NaN
                    ELSE IF n % 2 = 0
                         THEN Num(times[n \div 2] + times[(n \div 2) + 1], 2)
                         ELSE Num(times[(n \div 2) + 1], 1),
         min    |-> At(times, 0),
         max    |-> At(times, n - 1),
         \* sqrt(sq / n^3), rounded down to a multiple of 1/n^2
         stdDev |-> IF n = 0 THEN NaN ELSE Num(SqrtFloor(sq * n), n * n),
         p95    |-> At(times, (n * 95) \div 100),
         p99    |-> At(times, (n * 99) \div 100),
         resultCount |-> resultCount,
         times  |-> times]

\* times.sort(...) followed by the statistics
ComputeDigest(unsorted, resultCount) ==
    CHOOSE digest \in {DigestOfSorted(times, resultCount) :
                          times \in {SortTimes(s) : s \in {unsorted}}} : TRUE

(***************************************************************************)
(* The comparison of a measured mean with a stored one.                    *)
(***************************************************************************)
\* x - y
Sub(x, y) == Num(x.num * y.den - y.num * x.den, x.den * y.den)

Infinity(sign) == [kind |-> "inf", num |-> sign, den |-> 0]

\* x / y; a division by zero gives NaN, Infinity or -Infinity
Div(x, y) ==
    IF y.num = 0
    THEN IF x.num = 0 THEN NaN ELSE Infinity(IF x.num > 0 THEN 1 ELSE -1)
    ELSE IF y.num > 0 THEN Num(x.num * y.den, x.den * y.num)
    ELSE Num(-(x.num * y.den), -(x.den * y.num))

\* x * 100
Times100(x) == IF x.kind = "num" THEN Num(x.num * 100, x.den) ELSE x

\* Math.abs(x)
MathAbs(x) ==
    IF x.kind = "num" THEN Num(IF x.num < 0 THEN -(x.num) ELSE x.num, x.den)
    ELSE IF x.kind = "inf" THEN Infinity(1)
    ELSE x

\* x < n for an integer literal n; false for NaN
Lt(x, n) ==
    IF x.kind = "num" THEN x.num < n * x.den
    ELSE x.kind = "inf" /\ x.num < 0

\* x >= 0; false for NaN
Ge0(x) ==
    IF x.kind = "num" THEN x.num >= 0
    ELSE x.kind = "inf" /\ x.num > 0

Pow10(digits) == IF digits = 0 THEN 1 ELSE 10

\* x.toFixed(digits), digits 0 or 1: the sign, then the magnitude rounded to
\* the nearest multiple of 10^-digits, a tie going to the larger one
toFixed(x, digits) ==
    IF x.kind = "num"
    THEN LET m == MathAbs(x).num * Pow10(digits)
         IN  [kind |-> "fixed", neg |-> x.num < 0, digits |-> digits,
              units |-> (2 * m + x.den) \div (2 * x.den)]
    ELSE [kind |-> x.kind, neg |-> x.kind = "inf" /\ x.num < 0, digits |-> 0,
          units |-> 0]

NoText == [kind |-> "none", neg |-> FALSE, digits |-> 0, units |-> 0]

\* a rendered piece of a report: applyColor(`${value} (${sign}${delta}${unit})`)
\* or a fixed text without colour
Cell(color, value, sign, delta, unit) ==
    [color |-> color, value |-> value, sign |-> sign, delta |-> delta,
     unit |-> unit, literal |-> "", error |-> ""]

Literal(text) ==
    [color |-> "none", value |-> NoText, sign |-> "", delta |-> NoText,
     unit |-> "", literal |-> text, error |-> ""]

\* the evaluation ended with an exception instead of a value
Thrown(error) ==
    [color |-> "none", value |-> NoText, sign |-> "", delta |-> NoText,
     unit |-> "", literal |-> "", error |-> error]

\* nothing rendered yet
Rendered == Literal("")

\* formatDiff of the single-benchmark report
formatDiff(current, baseline) ==
    LET percentDiff  == Times100(Div(Sub(current, baseline), baseline))
        absoluteDiff == Sub(current, baseline)
        sign         == IF Ge0(percentDiff) THEN "+" ELSE ""
        color        ==
            IF Lt(baseline, 10)
            THEN IF Lt(MathAbs(absoluteDiff), 1) THEN "blue"
                 ELSE IF Lt(absoluteDiff, 0) THEN "green"
                 ELSE IF Lt(absoluteDiff, 2) THEN "yellow_highlight"
                 ELSE "red"
            ELSE IF Lt(MathAbs(percentDiff), 5) THEN "blue"
                 ELSE IF Lt(percentDiff, 0) THEN "green"
                 ELSE IF Lt(percentDiff, 15) THEN "yellow_highlight"
                 ELSE "red"
    IN  Cell(color, NoText, sign, toFixed(percentDiff, 1), "%")

\* variant: the mode is chosen by the compared value instead of the shown one
formatDiffCellByCurrent(displayValue, comparisonValue) ==
    IF displayValue = Undefined \/ comparisonValue = Undefined THEN Literal("-")
    ELSE IF ~IsNotMinusOne(displayValue) \/ ~IsNotMinusOne(comparisonValue)
    THEN Literal("N/A")
    ELSE
    LET percentDiff  == Times100(Div(Sub(comparisonValue, displayValue), displayValue))
        absoluteDiff == Sub(comparisonValue, displayValue)
        color        ==
            IF Lt(comparisonValue, 10)
            THEN IF Lt(MathAbs(absoluteDiff), 1) THEN "blue"
                 ELSE IF Lt(absoluteDiff, 0) THEN "green"
                 ELSE IF Lt(absoluteDiff, 2) THEN "yellow_highlight"
                 ELSE "red"
            ELSE IF Lt(MathAbs(percentDiff), 5) THEN "blue"
                 ELSE IF Lt(percentDiff, 0) THEN "green"
                 ELSE IF Lt(percentDiff, 15) THEN "yellow_highlight"
                 ELSE "red"
    IN  IF Lt(displayValue, 10)
        THEN Cell(color, toFixed(displayValue, 1),
                  IF Ge0(absoluteDiff) THEN "+" ELSE "", toFixed(absoluteDiff, 1), "")
        ELSE Cell(color, toFixed(displayValue, 1),
                  IF Ge0(percentDiff) THEN "+" ELSE "", toFixed(percentDiff, 0), "%")

\* formatDiffCell of the .benchmark_all table
formatDiffCell(displayValue, comparisonValue) ==
    IF displayValue = Undefined \/ comparisonValue = Undefined THEN Literal("-")
    ELSE IF ~IsNotMinusOne(displayValue) \/ ~IsNotMinusOne(comparisonValue)
    THEN Literal("N/A")
    ELSE
    LET percentDiff  == Times100(Div(Sub(comparisonValue, displayValue), displayValue))
        absoluteDiff == Sub(comparisonValue, displayValue)
        color        ==
            IF Lt(displayValue, 10)
            THEN IF Lt(MathAbs(absoluteDiff), 1) THEN "blue"
                 ELSE IF Lt(absoluteDiff, 0) THEN "green"
                 ELSE IF Lt(absoluteDiff, 2) THEN "yellow_highlight"
                 ELSE "red"
            ELSE IF Lt(MathAbs(percentDiff), 5) THEN "blue"
                 ELSE IF Lt(percentDiff, 0) THEN "green"
                 ELSE IF Lt(percentDiff, 15) THEN "yellow_highlight"
                 ELSE "red"
    IN  IF Lt(displayValue, 10)
        THEN Cell(color, toFixed(displayValue, 1),
                  IF Ge0(absoluteDiff) THEN "+" ELSE "", toFixed(absoluteDiff, 1), "")
        ELSE Cell(color, toFixed(displayValue, 1),
                  IF Ge0(percentDiff) THEN "+" ELSE "", toFixed(percentDiff, 0), "%")

\* formatDiffCell of the .benchmark_show table: its body reads displayValue,
\* a name that is not declared in its scope
showFormatDiffCell(current, baseline) ==
    IF current = Undefined \/ baseline = Undefined THEN Literal("-")
    ELSE Thrown("ReferenceError: displayValue is not defined")

\* the places where two means are compared
Views == {"benchmark", "all", "show"}

\* each view is called with the stored mean and the mean it is compared with
RenderView(view, baseline, current) ==
    CASE view = "benchmark" -> formatDiff(current, baseline)
      [] view = "all" -> formatDiffCell(baseline, current)
      [] view = "show" -> showFormatDiffCell(current, baseline)

\* the legend printed under the tables (its less-or-equal sign written <=)
Legend ==
    [green |-> "Improvement (>1ms or >5% faster)",
     yellow_highlight |-> "Small regression (1-2ms or 5-15% slower)",
     red |-> "Large regression (>2ms or >15% slower)",
     blue |-> "No significant change (<=1ms or <=5%)"]

(***************************************************************************)
(* Bounds of the model.                                                    *)
(***************************************************************************)
MaxCmds == 2          \* command lines typed in a session of overlapping commands
BatchCmds == 1        \* command lines typed in a session on the full suite
MaxRuns == 3          \* largest run count typed as an argument
MaxLines == 3         \* lines of an imported file
MaxSamples == 4       \* samples of the short arrays whose statistics are checked

Procs == 1..MaxCmds

\* elapsed milliseconds of one timed execution, result.items.length
Timings == {2}
ItemCounts == {3}

\* what the user may type at the overwrite prompt
Answers == {"yes", "no", "N", "all", "none", ""}

\* answer.toLowerCase().trim() on the answers above
Normalize(answer) == IF answer = "N" THEN "n" ELSE answer

(***************************************************************************)
(* Benchmark definitions and their identity.                               *)
(***************************************************************************)
\* a statement is a sequence of tokens
Statement(name) == <<name>>

FullSuite ==
    << [name |-> "indexed", query |-> Statement("q1"),
        preQueries |-> <<Statement("s1"), Statement("s2")>>,
        postQueries |-> <<Statement("c1"), Statement("c2")>>],
       [name |-> "plain", query |-> Statement("q2"),
        preQueries |-> <<>>, postQueries |-> <<>>],
       [name |-> "sorted", query |-> Statement("q3"),
        preQueries |-> <<>>, postQueries |-> <<Statement("c3")>>] >>

SmallSuite ==
    << [name |-> "indexed", query |-> Statement("q1"),
        preQueries |-> <<Statement("s1")>>,
        postQueries |-> <<Statement("c1")>>] >>

\* parts.join(sep)
RECURSIVE Join(_, _)
Join(parts, sep) ==
    IF parts = <<>> THEN <<>>
    ELSE IF Len(parts) = 1 THEN parts[1]
    ELSE parts[1] \o <<sep>> \o Join(Tail(parts), sep)

\* generateBenchmarkHash: SHA-256 is taken to be injective on the joined text
generateBenchmarkHash(preQueries, query) == Join(preQueries \o <<query>>, "|")

\* getDittoVersion: the version of the installed SDK
dittoVersion == VersionString(4, 12, 2)

(***************************************************************************)
(* The baseline collection.                                                *)
(***************************************************************************)
NoRecord == [none |-> TRUE]

\* the items of SELECT ... WHERE _id.hash = :hash
RecordsOf(coll, hash) == {r \in coll : r.id.hash = hash}

\* variant: the error of the engine reaches the caller
getBaselineNoCatch(coll, hash, version, throws) ==
    IF throws THEN [error |-> TRUE]
    ELSE LET items == {r \in RecordsOf(coll, hash) : r.id.ditto_version = version}
         IN  IF items # {} THEN CHOOSE r \in items : TRUE ELSE NoRecord

\* getBaseline: the record of (hash, version), null when absent or on error
getBaseline(coll, hash, version, throws) ==
    IF throws THEN NoRecord
    ELSE LET items == {r \in RecordsOf(coll, hash) : r.id.ditto_version = version}
         IN  IF items # {} THEN CHOOSE r \in items : TRUE ELSE NoRecord

\* INSERT ... ON ID CONFLICT DO UPDATE
Upsert(coll, rec) == {r \in coll : r.id # rec.id} \cup {rec}

\* saveBaseline: the upsert, or nothing when the engine throws
saveBaseline(coll, rec, throws) == IF throws THEN coll ELSE Upsert(coll, rec)

maxQueryLength == 100

\* the display copy of the query kept in _id
queryForId(query) ==
    IF Len(query) > maxQueryLength
    THEN SubSeq(query, 1, maxQueryLength) \o <<"...">>
    ELSE query

\* the document built by .benchmark_baseline from the results of a run
BaselineDocument(bench, results, runCount, now) ==
    [id |-> [query |-> queryForId(bench.query),
             hash  |-> generateBenchmarkHash(bench.preQueries, bench.query),
             ditto_version |-> dittoVersion],
     metrics |-> [mean |-> results.mean, median |-> results.median,
                  min |-> results.min, max |-> results.max,
                  stdDev |-> results.stdDev, p95 |-> results.p95,
                  p99 |-> results.p99, resultCount |-> results.resultCount,
                  runs |-> runCount, timestamp |-> now]]

\* a record left by an earlier session for version v
SeedRecord(bench, v) ==
    [BaselineDocument(bench, ComputeDigest(<<5>>, 3), 1, 0)
        EXCEPT !.id.ditto_version = v]

SeededStore(suite) ==
    {SeedRecord(suite[b], dittoVersion) : b \in 1..Len(suite)}
    \cup {SeedRecord(suite[1], VersionString(4, 11, 9))}

(***************************************************************************)
(* The multi-version tables of .benchmark_all and .benchmark_show.         *)
(***************************************************************************)
\* "-baseline", appended to the current version for the column of its record
BaselineSuffix == <<45, 98, 97, 115, 101, 108, 105, 110, 101>>

\* version.endsWith('-baseline')
EndsWithBaseline(version) ==
    /\ Len(version) >= Len(BaselineSuffix)
    /\ SubSeq(version, Len(version) - Len(BaselineSuffix) + 1, Len(version))
          = BaselineSuffix

\* metrics.mean of the record of (hash, version)
MeanOf(coll, hash, version) ==
    (CHOOSE r \in RecordsOf(coll, hash) : r.id.ditto_version = version).metrics.mean

\* the elements of a sequence
Range(seq) == {seq[n] : n \in DOMAIN seq}

\* .benchmark_all: the Map of one benchmark whose run returned mean,
\* from version to mean
CollectRun(coll, bench, mean, throws) ==
    LET hash       == generateBenchmarkHash(bench.preQueries, bench.query)
        stored     == {r.id.ditto_version : r \in RecordsOf(coll, hash)}
        comparison == Range(getComparisonBaselines(stored, dittoVersion, throws))
        current    == getBaseline(coll, hash, dittoVersion, throws)
        separate   == current # NoRecord /\ current.metrics.mean # mean
    IN  [v \in {dittoVersion} \cup comparison
                \cup (IF separate THEN {dittoVersion \o BaselineSuffix} ELSE {}) |->
            IF v = dittoVersion THEN mean
            ELSE IF v \in comparison THEN MeanOf(coll, hash, v)
            ELSE current.metrics.mean]

\* .benchmark_show: the Map of one benchmark, from the stored versions to
\* their means
CollectStored(coll, bench) ==
    LET hash == generateBenchmarkHash(bench.preQueries, bench.query)
    IN  [v \in {r.id.ditto_version : r \in RecordsOf(coll, hash)} |->
            MeanOf(coll, hash, v)]

\* versionData.get(version)
Get(versionData, version) ==
    IF version \in DOMAIN versionData THEN versionData[version] ELSE Undefined

\* sortedVersions: the current version, then the others by localeCompare
sortedVersions(allVersions) ==
    <<dittoVersion>> \o SortAlpha(allVersions \ {dittoVersion})

\* formatCell of .benchmark_all
formatCell(value) ==
    IF value = Undefined THEN Literal("-")
    ELSE IF ~IsNotMinusOne(value) THEN Literal("N/A")
    ELSE Cell("none", toFixed(value, 1), "", NoText, "")

\* formatCell of .benchmark_show
showFormatCell(value) ==
    IF value = Undefined THEN Literal("-")
    ELSE Cell("none", toFixed(value, 1), "", NoText, "")

\* a printed table: the version columns and, per benchmark that has a row,
\* the cells of the row
Table(versions, rows) == [printed |-> "table", versions |-> versions, rows |-> rows]

\* "No baseline data found!" is printed instead of a table
NoTable == [printed |-> "no data", versions |-> <<>>, rows |-> <<>>]

\* the command has not run
NotPrinted == [printed |-> "nothing", versions |-> <<>>, rows |-> <<>>]

\* the summary table of .benchmark_all; outcomes[b] is "ok", "sentinel"
\* (the run returned mean -1) or "failed" (the catch block was entered)
benchmarkAllTable(suite, coll, outcomes, mean, throws) ==
    LET baselinesByBenchmark ==
            [b \in {b \in DOMAIN suite : outcomes[b] = "ok"} |->
                CollectRun(coll, suite[b], mean, throws)]
        allVersions ==
            {dittoVersion}
            \cup UNION {DOMAIN baselinesByBenchmark[b] : b \in DOMAIN baselinesByBenchmark}
        displayVersions == sortedVersions(allVersions)
    IN  Table(displayVersions,
              [b \in DOMAIN baselinesByBenchmark |->
                  [n \in DOMAIN displayVersions |->
                      LET version      == displayVersions[n]
                          value        == Get(baselinesByBenchmark[b], version)
                          currentValue == Get(baselinesByBenchmark[b], dittoVersion)
                      IN  IF version = dittoVersion THEN formatCell(value)
                          ELSE IF EndsWithBaseline(version) THEN formatCell(value)
                          ELSE formatDiffCell(value, currentValue)]])

\* the table of .benchmark_show
benchmarkShowTable(suite, coll) ==
    LET baselinesByBenchmark ==
            [b \in {b \in DOMAIN suite : CollectStored(coll, suite[b]) # <<>>} |->
                CollectStored(coll, suite[b])]
        allVersions ==
            {dittoVersion}
            \cup UNION {DOMAIN baselinesByBenchmark[b] : b \in DOMAIN baselinesByBenchmark}
        displayVersions == sortedVersions(allVersions)
    IN  IF DOMAIN baselinesByBenchmark = {} THEN NoTable
        ELSE Table(displayVersions,
              [b \in DOMAIN baselinesByBenchmark |->
                  [n \in DOMAIN displayVersions |->
                      LET version      == displayVersions[n]
                          value        == Get(baselinesByBenchmark[b], version)
                          currentValue == Get(baselinesByBenchmark[b], dittoVersion)
                      IN  IF version = dittoVersion \/ currentValue = Undefined
                          THEN showFormatCell(value)
                          ELSE showFormatDiffCell(currentValue, value)]])

\* the commands that print a multi-version table
TableCommands == {"all", "show"}

\* a suite in which the query of one benchmark contains the character |
CollidingSuite ==
    << [name |-> "indexed", query |-> Statement("b"),
        preQueries |-> <<Statement("a")>>,
        postQueries |-> <<Statement("c1")>>],
       [name |-> "plain", query |-> <<"a", "|", "b">>,
        preQueries |-> <<>>, postQueries |-> <<>>] >>

\* a line of benchmark_baselines.ndjson that JSON.parse rejects
Malformed == [malformed |-> TRUE]

\* the body of the loop of importBaselines: JSON.parse, then the upsert;
\* a line that does not parse or whose insert throws leaves the collection
ImportOne(coll, line, throws) ==
    IF line = Malformed \/ throws THEN coll ELSE Upsert(coll, line)

\* importBaselines when no insert throws: the collection after the file
RECURSIVE importBaselines(_, _)
importBaselines(coll, lines) ==
    IF lines = <<>> THEN coll
    ELSE importBaselines(ImportOne(coll, Head(lines), FALSE), Tail(lines))

\* variant: the first failure ends the import
AfterLineAborts(state, line, throws, count) ==
    IF line = Malformed \/ throws
    THEN [state EXCEPT !.pos = count, !.errorCount = @ + 1,
                       !.threw = IF throws /\ line # Malformed THEN @ + 1 ELSE @]
    ELSE [state EXCEPT !.pos = @ + 1, !.successCount = @ + 1]

\* the counters after one line of a file of count lines
AfterLine(state, line, throws, count) ==
    IF line = Malformed \/ throws
    THEN [state EXCEPT !.pos = @ + 1, !.errorCount = @ + 1,
                       !.threw = IF throws /\ line # Malformed THEN @ + 1 ELSE @]
    ELSE [state EXCEPT !.pos = @ + 1, !.successCount = @ + 1]

\* files written by earlier sessions on the suite
ImportFiles(suite) ==
    {<<>>,
     <<SeedRecord(suite[1], dittoVersion), Malformed,
       [SeedRecord(suite[1], dittoVersion) EXCEPT !.metrics.runs = 2]>>,
     <<SeedRecord(suite[1], VersionString(4, 11, 9)),
       SeedRecord(suite[2], dittoVersion)>>}

(***************************************************************************)
(* One invocation of the rl.on('line') handler.  The handler runs without  *)
(* interruption between two awaits; pc names the await it is suspended at. *)
(***************************************************************************)
NoResults == [none |-> TRUE]

IdleProc ==
    [kind |-> "idle", pc |-> "idle", list |-> <<>>, i |-> 0, k |-> 0,
     runCount |-> 0, times |-> <<>>, resultCount |-> 0, results |-> NoResults,
     returned |-> NoResults, caught |-> FALSE,
     policy |-> "ask", skipped |-> 0, saved |-> 0, doc |-> NoRecord,
     outcome |-> "none", log |-> <<>>, issued |-> <<>>]

\* awaits of ditto.store.execute
EnginePcs ==
    {"getBaseline", "pre", "timed", "cmpList", "cmpCur", "colList", "colCur",
     "sumList", "sumCur", "save", "post", "postFail", "showList"}

\* number of execute calls that have been issued and have not returned
InFlight == Cardinality({p \in Procs : procs[p].pc \in EnginePcs})

\* the query typed after .bench, run without setup or cleanup
AdHocBenchmark ==
    [name |-> "", query |-> Statement("adhoc"), preQueries |-> <<>>,
     postQueries |-> <<>>]

Bench(c) == IF c.kind = "bench" THEN AdHocBenchmark ELSE benchmarks[c.list[c.i]]

\* the pending ditto.store.execute of the invocation returns or throws
Outcome(c, throws) == [c EXCEPT !.outcome = IF throws THEN "threw" ELSE "ok"]

\* ditto.store.execute(stmt) is called for the current benchmark
Issue(c, stmt) == [c EXCEPT !.issued = Append(@, stmt)]

\* variant: every command asks for the comparison
CompareBaselineAlways(kind) == TRUE

\* the compareBaseline argument each command passes to benchmarkQuery
CompareBaseline(kind) == kind \in {"all", "benchmark"}

RECURSIVE BeginIteration(_)

\* the end of one iteration of the for loop over the benchmarks
NextIteration(c) ==
    BeginIteration([c EXCEPT !.i = @ + 1, !.k = 0, !.issued = <<>>,
                             !.results = NoResults, !.doc = NoRecord])

\* "Run post-queries if they exist" at the end of the try block
EnterPost(c) ==
    IF Bench(c).postQueries # <<>>
    THEN Issue([c EXCEPT !.pc = "post", !.k = 1], Bench(c).postQueries[1])
    ELSE NextIteration(c)

\* variant: the error ends the handler before rl.prompt() is reached
TopLevelCatchNoPrompt(c) == [c EXCEPT !.pc = "crashed", !.caught = TRUE]

\* the catch block around the whole command: the error is printed, then
\* rl.prompt() is called and the handler returns
TopLevelCatch(c) == [c EXCEPT !.pc = "done", !.caught = TRUE]

\* variant: the failure of a benchmark leaves the loop
CatchFailureAborts(c) == [c EXCEPT !.skipped = @ + 1, !.pc = "done"]

\* the catch block of a benchmark of .benchmark_all / .benchmark_baseline
CatchFailure(c) ==
    LET d == [c EXCEPT !.skipped = @ + 1]
    IN  IF Bench(c).postQueries # <<>>
        THEN Issue([d EXCEPT !.pc = "postFail", !.k = 1], Bench(c).postQueries[1])
        ELSE NextIteration(d)

\* variant: the results are used without the mean !== -1 test
ReturnedUnguarded(c, results) ==
    LET d == [c EXCEPT !.results = results, !.returned = results,
                       !.times = <<>>]
    IN  CASE c.kind = "baseline" -> [d EXCEPT !.pc = "save"]
          [] c.kind = "all" -> [d EXCEPT !.pc = "colList"]
          [] c.kind = "benchmark" -> EnterPost(d)
          [] c.kind = "bench" -> [d EXCEPT !.pc = "done"]

\* benchmarkQuery has returned results to the command that called it
Returned(c, results) ==
    LET d == [c EXCEPT !.results = results, !.returned = results,
                       !.times = <<>>]
    IN  CASE c.kind = "baseline" ->
               IF IsNotMinusOne(results.mean)
               THEN [d EXCEPT !.pc = "save"]
               ELSE EnterPost(d)
          [] c.kind = "all" ->
               IF IsNotMinusOne(results.mean)
               THEN [d EXCEPT !.pc = "colList"]
               ELSE EnterPost(d)
          [] c.kind = "benchmark" -> EnterPost(d)
          [] c.kind = "bench" -> [d EXCEPT !.pc = "done"]

\* benchmarkQuery after the timed loop: statistics, then the comparison
AfterLoop(c) ==
    LET Continue(digest) ==
            IF CompareBaseline(c.kind) /\ IsNotMinusOne(digest.mean)
            THEN [c EXCEPT !.pc = "cmpList", !.results = digest]
            ELSE Returned(c, digest)
    IN  CHOOSE d \in {Continue(digest) :
                         digest \in {ComputeDigest(c.times, c.resultCount)}} : TRUE

\* variant: the catch block does not return and the loop goes on
OnTimedErrorKeepsGoing(c) ==
    LET d == [c EXCEPT !.times = Append(@, 0)]
    IN  IF Len(d.times) < c.runCount THEN Issue(d, Bench(c).query)
        ELSE AfterLoop(d)

\* the catch block of the timed loop: the sentinel digest is returned
OnTimedError(c) == Returned(c, SentinelDigest)

\* benchmarkQuery up to the first timed execute
EnterTimed(c) ==
    LET d == [c EXCEPT !.times = <<>>, !.resultCount = 0]
    IN  IF 0 < c.runCount
        THEN Issue([d EXCEPT !.pc = "timed"], Bench(c).query)
        ELSE AfterLoop(d)

\* variant: the setup statements are not run
EnterPreSkipsSetup(c) == EnterTimed(c)

\* "Run pre-queries if they exist"
EnterPre(c) ==
    IF Bench(c).preQueries # <<>>
    THEN Issue([c EXCEPT !.pc = "pre", !.k = 1], Bench(c).preQueries[1])
    ELSE EnterTimed(c)

\* the head of the for loop; after the last benchmark the summary is printed,
\* rl.prompt() is called and the handler returns
BeginIteration(c) ==
    IF c.i > Len(c.list) THEN [c EXCEPT !.pc = "done"]
    ELSE CASE c.kind = "baseline" -> [c EXCEPT !.pc = "getBaseline"]
           [] c.kind = "all" -> EnterPre(c)
           [] c.kind = "benchmark" -> EnterPre(c)
           [] c.kind = "show" -> [c EXCEPT !.pc = "showList"]

\* variant: a skipped conflict falls through to the measurement
DecideRunsAnyway(c, conflict, prompted, answer, shouldOverwrite) ==
    EnterPre([c EXCEPT !.log = Append(@,
                 [pos |-> c.i, conflict |-> conflict, prompted |-> prompted,
                  answer |-> answer, overwrite |-> shouldOverwrite])])

\* the overwrite decision taken for the current benchmark of .benchmark_baseline
Decide(c, conflict, prompted, answer, shouldOverwrite) ==
    LET d == [c EXCEPT !.log = Append(@,
                 [pos |-> c.i, conflict |-> conflict, prompted |-> prompted,
                  answer |-> answer, overwrite |-> shouldOverwrite])]
    IN  IF conflict /\ ~shouldOverwrite THEN NextIteration(d) ELSE EnterPre(d)

\* variant: the batch answers are not remembered
PolicyAfterOneShot(answer) == "ask"

\* variant: "yes" is remembered like "all"
PolicyAfterYesSticks(answer) ==
    IF answer \in {"a", "all", "y", "yes"} THEN "all"
    ELSE IF answer = "n" \/ answer = "none" THEN "none"
    ELSE "ask"

\* overwritePolicy after the answer to the prompt
PolicyAfter(answer) ==
    IF answer = "a" \/ answer = "all" THEN "all"
    ELSE IF answer = "n" \/ answer = "none" THEN "none"
    ELSE "ask"

\* shouldOverwrite after the answer to the prompt
ShouldOverwrite(answer) ==
    IF answer = "a" \/ answer = "all" THEN TRUE
    ELSE IF answer = "n" \/ answer = "none" THEN FALSE
    ELSE IF answer = "y" \/ answer = "yes" THEN TRUE
    ELSE FALSE

\* variant: the policy is a variable shared by all invocations
StartPolicyInherited(previous) == previous

\* let overwritePolicy = 'ask' at the start of .benchmark_baseline
StartPolicy(previous) == "ask"

(***************************************************************************)
(* Command lines.                                                          *)
(***************************************************************************)
NoArg == [t |-> "none", v |-> 0, name |-> ""]
IntArg(n) == [t |-> "int", v |-> n, name |-> ""]
NameArg(s) == [t |-> "name", v |-> 0, name |-> s]

DefaultBaselineRuns == 50
DefaultBenchmarkRuns == 5
AdHocRuns == 20

RunArgs == {0, MaxRuns}

Lines ==
    {[cmd |-> "baseline", a1 |-> IntArg(n), a2 |-> NoArg] : n \in RunArgs}
    \cup {[cmd |-> "benchmark", a1 |-> NameArg("indexed"), a2 |-> IntArg(n)] :
            n \in RunArgs}
    \cup {[cmd |-> "benchmark", a1 |-> IntArg(3), a2 |-> NoArg],
          [cmd |-> "benchmark", a1 |-> NameArg("nosuch"), a2 |-> NoArg]}
    \cup {[cmd |-> "baseline", a1 |-> NameArg(s), a2 |-> IntArg(MaxRuns)] :
            s \in {"plain", "nosuch"}}
    \cup {[cmd |-> "all", a1 |-> IntArg(n), a2 |-> NoArg] : n \in RunArgs}
    \cup {[cmd |-> "bench", a1 |-> NameArg("adhoc"), a2 |-> NoArg],
          [cmd |-> "bench", a1 |-> NoArg, a2 |-> NoArg],
          [cmd |-> "show", a1 |-> NoArg, a2 |-> NoArg]}

\* the lines typed while other commands are running
OverlapLines ==
    {[cmd |-> "baseline", a1 |-> IntArg(1), a2 |-> NoArg],
     [cmd |-> "all", a1 |-> IntArg(1), a2 |-> NoArg]}

\* the command lines of the session
SessionLines == IF typist = "eager" THEN OverlapLines ELSE Lines

\* Object.keys(benchmarks)
BenchmarkKeys == [b \in 1..Len(benchmarks) |-> b]

\* benchmarks[name], 0 when there is no such benchmark
IndexOfName(name) ==
    IF \E b \in 1..Len(benchmarks) : benchmarks[b].name = name
    THEN CHOOSE b \in 1..Len(benchmarks) : benchmarks[b].name = name
    ELSE 0

\* .benchmark_baseline: argument parsing up to the first await of the loop
StartBaseline(line, previous) ==
    LET runCount == IF line.a1.t = "int" THEN line.a1.v
                    ELSE IF line.a2.t = "int" /\ line.a2.v > 0 THEN line.a2.v
                    ELSE DefaultBaselineRuns
        named    == line.a1.t = "name"
        c        == [IdleProc EXCEPT !.kind = "baseline", !.runCount = runCount,
                                     !.i = 1]
    IN  IF named /\ IndexOfName(line.a1.name) = 0
        THEN [c EXCEPT !.pc = "done"]
        ELSE BeginIteration(
               [c EXCEPT !.list = IF named THEN <<IndexOfName(line.a1.name)>>
                                  ELSE BenchmarkKeys,
                         !.policy = StartPolicy(previous)])

\* .benchmark_all: argument parsing up to the first await of the loop
StartAll(line) ==
    LET runCount == IF line.a1.t = "none" THEN DefaultBenchmarkRuns
                    ELSE IF line.a1.t = "int" THEN line.a1.v ELSE -1
        c        == [IdleProc EXCEPT !.kind = "all", !.runCount = runCount, !.i = 1]
    IN  IF runCount < 1 THEN [c EXCEPT !.pc = "done"]
        ELSE BeginIteration([c EXCEPT !.list = BenchmarkKeys])

\* .benchmark <name|index> [runs]: argument parsing up to the first await
StartBenchmark(line) ==
    LET runCount == IF line.a2.t = "int" THEN line.a2.v ELSE DefaultBenchmarkRuns
        index    == IF line.a1.t = "int" /\ line.a1.v > 0
                       /\ line.a1.v <= Len(benchmarks)
                    THEN line.a1.v
                    ELSE IF line.a1.t = "name" THEN IndexOfName(line.a1.name)
                    ELSE 0
        c        == [IdleProc EXCEPT !.kind = "benchmark", !.runCount = runCount,
                                     !.i = 1]
    IN  IF runCount < 1 \/ index = 0 THEN [c EXCEPT !.pc = "done"]
        ELSE BeginIteration([c EXCEPT !.list = <<index>>])

\* .bench <query>: the usage text, or benchmarkQuery(query, 20, [], false)
StartBench(line) ==
    LET c == [IdleProc EXCEPT !.kind = "bench", !.runCount = AdHocRuns, !.i = 1]
    IN  IF line.a1.t = "none" THEN [c EXCEPT !.pc = "done"]
        ELSE EnterTimed(c)

\* .benchmark_show: one SELECT by hash for each benchmark, then the table
StartShow(line) ==
    BeginIteration([IdleProc EXCEPT !.kind = "show", !.i = 1,
                                    !.list = BenchmarkKeys])

\* the summary printed after the loop of .benchmark_baseline
BaselineSummary(c) ==
    [total |-> Len(c.list), created |-> Len(c.list) - c.skipped,
     allCreated |-> c.skipped = 0]

\* the dispatch of rl.on('line')
StartCommand(line, previous) ==
    CASE line.cmd = "baseline" -> StartBaseline(line, previous)
      [] line.cmd = "all" -> StartAll(line)
      [] line.cmd = "benchmark" -> StartBenchmark(line)
      [] line.cmd = "bench" -> StartBench(line)
      [] line.cmd = "show" -> StartShow(line)

\* what is left of an invocation whose handler has returned
Retired(c) == [IdleProc EXCEPT !.kind = c.kind, !.pc = "done", !.policy = c.policy]

\* the baseline document is built, with new Date(), right before saveBaseline
Settle(c) ==
    IF c.pc = "save" /\ c.doc = NoRecord
    THEN [c EXCEPT !.doc = BaselineDocument(Bench(c), c.results, c.runCount, clock)]
    ELSE c

Update(p, c) ==
    \E d \in {c} : \E e \in {Settle(d)} :
        /\ procs' = [procs EXCEPT ![p] = e]
        /\ clock' = IF e # d THEN clock + 1 ELSE clock

SelUnchanged ==
    UNCHANGED <<selStored, selCurrent, selResult, cmpBaseline, cmpCurrent,
                cmpResult, hashDefs, hashResult, tblInput, tblResult, impFile, impState,
                   statTimes, statDigest>>

(***************************************************************************)
(* Actions.                                                                *)
(***************************************************************************)
\* readline emits 'line' and no question is pending: a new handler starts
LineArrives(p, line) ==
    /\ question = 0
    /\ p <= budget
    /\ procs[p].pc = "idle"
    /\ \A q \in Procs : q < p => procs[q].pc # "idle"
    /\ typist = "eager" \/ \A q \in Procs : procs[q].pc \in {"idle", "done"}
    /\ LET previous == IF p > 1 THEN procs[p - 1].policy ELSE "ask"
       IN  procs' = [q \in Procs |->
                       IF q = p THEN StartCommand(line, previous)
                       ELSE IF procs[q].pc = "done" THEN Retired(procs[q])
                       ELSE procs[q]]
    /\ UNCHANGED <<benchmarks, typist, budget, store, question, clock>>
    /\ SelUnchanged

\* the existence check of .benchmark_baseline returns
GetBaselineReturns(p, throws) ==
    LET c        == Outcome(procs[p], throws)
        hash     == generateBenchmarkHash(Bench(c).preQueries, Bench(c).query)
        existing == getBaseline(store, hash, dittoVersion, throws)
    IN  /\ c.pc = "getBaseline"
        /\ IF existing # NoRecord
           THEN IF c.policy = "ask"
                THEN \* rl.question: ignored when a question is already pending
                     /\ procs' = [procs EXCEPT ![p] =
                                     [c EXCEPT !.pc = IF question = 0 THEN "prompt"
                                                      ELSE "promptLost"]]
                     /\ question' = IF question = 0 THEN p ELSE question
                     /\ UNCHANGED clock
                ELSE /\ Update(p, Decide(c, TRUE, FALSE, "-", c.policy = "all"))
                     /\ UNCHANGED question
           ELSE /\ Update(p, Decide(c, FALSE, FALSE, "-", FALSE))
                /\ UNCHANGED question
        /\ UNCHANGED <<benchmarks, typist, budget, store>>
        /\ SelUnchanged

\* the user answers the overwrite prompt
Answer(p, raw) ==
    LET c      == procs[p]
        answer == Normalize(raw)
    IN  /\ question = p
        /\ c.pc = "prompt"
        /\ question' = 0
        /\ Update(p, Decide([c EXCEPT !.policy = PolicyAfter(answer)],
                            TRUE, TRUE, raw, ShouldOverwrite(answer)))
        /\ UNCHANGED <<benchmarks, typist, budget, store>>
        /\ SelUnchanged

\* a setup statement returns or throws
PreReturns(p, throws) ==
    LET c == Outcome(procs[p], throws)
    IN  /\ c.pc = "pre"
        /\ Update(p, IF throws
                     THEN IF c.kind = "benchmark" THEN TopLevelCatch(c)
                          ELSE CatchFailure(c)
                     ELSE IF c.k < Len(Bench(c).preQueries)
                          THEN Issue([c EXCEPT !.k = @ + 1],
                                     Bench(c).preQueries[c.k + 1])
                          ELSE EnterTimed(c))
        /\ UNCHANGED <<benchmarks, typist, budget, store, question>>
        /\ SelUnchanged

\* one timed execution of the query returns or throws
TimedReturns(p, throws, elapsed, items) ==
    LET c == Outcome(procs[p], throws)
        d == [c EXCEPT !.times = Append(@, elapsed),
                       !.resultCount = IF Len(c.times) = 0 THEN items ELSE @]
    IN  /\ c.pc = "timed"
        /\ Update(p, IF throws THEN OnTimedError(c)
                     ELSE IF Len(d.times) < c.runCount
                          THEN Issue(d, Bench(c).query)
                          ELSE AfterLoop(d))
        /\ UNCHANGED <<benchmarks, typist, budget, store, question>>
        /\ SelUnchanged

\* a baseline lookup made for a report returns (it never throws to its caller)
LookupReturns(p, throws) ==
    LET c == Outcome(procs[p], throws)
    IN  /\ c.pc \in {"cmpList", "cmpCur", "colList", "colCur", "sumList", "sumCur",
                        "showList"}
        /\ Update(p, CASE c.pc = "cmpList" -> [c EXCEPT !.pc = "cmpCur"]
                       [] c.pc = "cmpCur"  -> Returned(c, c.results)
                       [] c.pc = "colList" -> [c EXCEPT !.pc = "colCur"]
                       [] c.pc = "colCur"  -> [c EXCEPT !.pc = "sumList"]
                       [] c.pc = "sumList" -> [c EXCEPT !.pc = "sumCur"]
                       [] c.pc = "sumCur"  -> EnterPost(c)
                       [] c.pc = "showList" -> NextIteration(c))
        /\ UNCHANGED <<benchmarks, typist, budget, store, question>>
        /\ SelUnchanged

\* the upsert of saveBaseline returns or throws
SaveReturns(p, throws) ==
    LET c == Outcome(procs[p], throws)
    IN  /\ c.pc = "save"
        /\ store' = saveBaseline(store, c.doc, throws)
        /\ Update(p, EnterPost([c EXCEPT !.saved = IF throws THEN @ ELSE @ + 1]))
        /\ UNCHANGED <<benchmarks, typist, budget, question>>
        /\ SelUnchanged

\* a cleanup statement returns or throws; in the batch commands both are
\* followed by the next one, in .benchmark a throw leaves the command
PostReturns(p, throws) ==
    LET c == Outcome(procs[p], throws)
    IN  /\ c.pc \in {"post", "postFail"}
        /\ Update(p, IF throws /\ c.kind = "benchmark" THEN TopLevelCatch(c)
                     ELSE IF c.k < Len(Bench(c).postQueries)
                     THEN Issue([c EXCEPT !.k = @ + 1],
                                Bench(c).postQueries[c.k + 1])
                     ELSE NextIteration(c))
        /\ UNCHANGED <<benchmarks, typist, budget, store, question>>
        /\ SelUnchanged

\* getComparisonBaselines is applied to the stored versions of one hash
Select(throws, throwsCurrent) ==
    /\ ~selResult.done
    /\ LET list == getComparisonBaselines(selStored, selCurrent, throws)
           cur  == currentBaseline(selStored, selCurrent, throwsCurrent)
       IN  selResult' = [done |-> TRUE, threw |-> throws, list |-> list,
                         shown |-> allBaselines(cur, list, selCurrent)]
    /\ UNCHANGED <<benchmarks, typist, budget, procs, store, question, clock,
                   selStored, selCurrent, cmpBaseline, cmpCurrent, cmpResult,
                   hashDefs, hashResult, tblInput, tblResult, impFile, impState,
                   statTimes, statDigest>>

\* one comparison view renders the pair of means
Compare(view) ==
    /\ cmpBaseline # Undefined
    /\ cmpResult[view] = Rendered
    /\ cmpResult' = [cmpResult EXCEPT ![view] = RenderView(view, cmpBaseline, cmpCurrent)]
    /\ UNCHANGED <<benchmarks, typist, budget, procs, store, question, clock,
                   selStored, selCurrent, selResult, cmpBaseline, cmpCurrent,
                   hashDefs, hashResult, tblInput, tblResult, impFile, impState,
                   statTimes, statDigest>>

\* generateBenchmarkHash is applied to the two definitions
Fingerprint ==
    /\ hashDefs # <<>>
    /\ hashResult = <<>>
    /\ hashResult' =
          [n \in DOMAIN hashDefs |->
              generateBenchmarkHash(hashDefs[n].preQueries, hashDefs[n].query)]
    /\ UNCHANGED <<benchmarks, typist, budget, procs, store, question, clock,
                   selStored, selCurrent, selResult, cmpBaseline, cmpCurrent,
                   cmpResult, hashDefs, tblInput, tblResult, impFile, impState,
                   statTimes, statDigest>>

\* the table of a command is printed for the outcomes of the runs
PrintTable(command) ==
    /\ tblInput # <<>>
    /\ tblResult[command] = NotPrinted
    /\ tblResult' =
          [tblResult EXCEPT ![command] =
              IF command = "all"
              THEN benchmarkAllTable(benchmarks, store, tblInput.outcomes,
                                     tblInput.mean, tblInput.throws)
              ELSE benchmarkShowTable(benchmarks, store)]
    /\ UNCHANGED <<benchmarks, typist, budget, procs, store, question, clock,
                   selStored, selCurrent, selResult, cmpBaseline, cmpCurrent,
                   cmpResult, hashDefs, hashResult, tblInput, impFile, impState,
                   statTimes, statDigest>>

\* importBaselines handles the next line of the file
ImportLine(throws) ==
    /\ impState.pos < Len(impFile)
    /\ LET line == impFile[impState.pos + 1]
       IN  /\ store' = ImportOne(store, line, throws)
           /\ impState' = AfterLine(impState, line, throws, Len(impFile))
    /\ UNCHANGED <<benchmarks, typist, budget, procs, question, clock,
                   selStored, selCurrent, selResult, cmpBaseline, cmpCurrent,
                   cmpResult, hashDefs, hashResult, tblInput, tblResult, impFile,
                   statTimes, statDigest>>

\* the statistics of benchmarkQuery after the last timed run
Summarize ==
    /\ statTimes # <<>>
    /\ statDigest = <<>>
    /\ statDigest' = ComputeDigest(statTimes, 1)
    /\ UNCHANGED <<benchmarks, typist, budget, procs, store, question, clock,
                   selStored, selCurrent, selResult, cmpBaseline, cmpCurrent,
                   cmpResult, hashDefs, hashResult, tblInput, tblResult, impFile,
                   impState, statTimes>>

(***************************************************************************)
(* Specifications.                                                         *)
(***************************************************************************)
NoSelection ==
    /\ selStored = {}
    /\ selCurrent = dittoVersion
    /\ selResult = [done |-> TRUE, threw |-> FALSE, list |-> <<>>, shown |-> <<>>]

\* successCount = 0, errorCount = 0 before the first line
ImportStart == [pos |-> 0, successCount |-> 0, errorCount |-> 0, threw |-> 0]

\* no statistics are being computed
NoStatistics ==
    /\ statTimes = <<>>
    /\ statDigest = <<>>

\* the import at start-up is over
NoImport ==
    /\ impFile = <<>>
    /\ impState = ImportStart

\* no table is being printed
NoTables ==
    /\ tblInput = <<>>
    /\ tblResult = [t \in TableCommands |-> NotPrinted]
    /\ NoImport
    /\ NoStatistics

\* no pair of means is waiting to be compared, no definitions to be hashed
NoComparison ==
    /\ cmpBaseline = Undefined
    /\ cmpCurrent = Undefined
    /\ cmpResult = [v \in Views |-> Rendered]
    /\ hashDefs = <<>>
    /\ hashResult = <<>>
    /\ NoTables

\* a session on the full suite in which every line is typed at the prompt
Init ==
    /\ benchmarks = FullSuite
    /\ typist = "patient"
    /\ budget = BatchCmds
    /\ procs = [p \in Procs |-> IdleProc]
    /\ store \in {{}, SeededStore(FullSuite)}
    /\ question = 0
    /\ clock = 1
    /\ NoSelection
    /\ NoComparison

\* a session in which lines are typed while earlier commands are running
InitOverlap ==
    /\ benchmarks = SmallSuite
    /\ typist = "eager"
    /\ budget = MaxCmds
    /\ procs = [p \in Procs |-> IdleProc]
    /\ store \in {{}, SeededStore(SmallSuite)}
    /\ question = 0
    /\ clock = 1
    /\ NoSelection
    /\ NoComparison

Next ==
    \/ \E p \in Procs, line \in SessionLines : LineArrives(p, line)
    \/ \E p \in Procs, throws \in BOOLEAN : GetBaselineReturns(p, throws)
    \/ \E p \in Procs, raw \in Answers : Answer(p, raw)
    \/ \E p \in Procs, throws \in BOOLEAN : PreReturns(p, throws)
    \/ \E p \in Procs, throws \in BOOLEAN, elapsed \in Timings, items \in ItemCounts :
          TimedReturns(p, throws, elapsed, items)
    \/ \E p \in Procs, throws \in BOOLEAN : LookupReturns(p, throws)
    \/ \E p \in Procs, throws \in BOOLEAN : SaveReturns(p, throws)
    \/ \E p \in Procs, throws \in BOOLEAN : PostReturns(p, throws)

Spec == Init /\ [][Next]_vars

\* versions a baseline collection may hold for one hash
VersionPool ==
    {VersionString(4, 12, 2), VersionString(4, 12, 1), VersionString(4, 12, 0),
     VersionString(4, 12, 10), VersionString(4, 11, 9), VersionString(4, 11, 5),
     VersionString(4, 10, 7), VersionString(4, 9, 4), UnknownVersion}

\* the selection applied to any stored set, no command running
InitSel ==
    /\ benchmarks = FullSuite
    /\ typist = "patient"
    /\ budget = 0
    /\ procs = [p \in Procs |-> IdleProc]
    /\ store = {}
    /\ question = 0
    /\ clock = 1
    /\ selStored \in SUBSET VersionPool
    /\ selCurrent \in {VersionString(4, 12, 2), VersionString(4, 11, 9)}
    /\ selResult = [done |-> FALSE, threw |-> FALSE, list |-> <<>>, shown |-> <<>>]
    /\ NoComparison

NextSel == \E throws \in BOOLEAN, throwsCurrent \in BOOLEAN : Select(throws, throwsCurrent)

SpecSel == InitSel /\ [][NextSel]_vars

\* means in tenths of a millisecond, around the limits of the classes
MeanTenths ==
    {0, 40, 50, 59, 60, 61, 70, 71, 99, 100, 94, 95, 96, 104, 105, 106, 114,
     115, 116, 940, 1000, 1150}

Means == {Num(n, 10) : n \in MeanTenths}

\* the comparison views applied to any pair of means, no command running
InitDiff ==
    /\ benchmarks = FullSuite
    /\ typist = "patient"
    /\ budget = 0
    /\ procs = [p \in Procs |-> IdleProc]
    /\ store = {}
    /\ question = 0
    /\ clock = 1
    /\ NoSelection
    /\ cmpBaseline \in Means
    /\ cmpCurrent \in Means
    /\ cmpResult = [v \in Views |-> Rendered]
    /\ hashDefs = <<>>
    /\ hashResult = <<>>
    /\ NoTables

NextDiff == \E view \in Views : Compare(view)

SpecDiff == InitDiff /\ [][NextDiff]_vars

\* statement texts; the character | can occur in a statement
StatementPool ==
    {Statement("a"), Statement("b"), <<"a", "|", "b">>, <<"a", "b">>}

\* preQueries arrays of up to two statements
PreQueryLists ==
    {<<>>} \cup {<<x>> : x \in StatementPool}
           \cup {<<x, y>> : x \in StatementPool, y \in StatementPool}

Definitions == [preQueries : PreQueryLists, query : StatementPool]

\* the fingerprint computed for any two definitions, no command running
InitHash ==
    /\ benchmarks = FullSuite
    /\ typist = "patient"
    /\ budget = 0
    /\ procs = [p \in Procs |-> IdleProc]
    /\ store = {}
    /\ question = 0
    /\ clock = 1
    /\ NoSelection
    /\ cmpBaseline = Undefined
    /\ cmpCurrent = Undefined
    /\ cmpResult = [v \in Views |-> Rendered]
    /\ hashDefs \in Definitions \X Definitions
    /\ hashResult = <<>>
    /\ NoTables

NextHash == Fingerprint

SpecHash == InitHash /\ [][NextHash]_vars

\* a session on the colliding suite, after the import at start-up
InitStore ==
    /\ benchmarks = CollidingSuite
    /\ typist = "patient"
    /\ budget = BatchCmds
    /\ procs = [p \in Procs |-> IdleProc]
    /\ store \in {importBaselines({}, file) : file \in ImportFiles(CollidingSuite)}
    /\ question = 0
    /\ clock = 1
    /\ NoSelection
    /\ NoComparison

SpecStore == InitStore /\ [][Next]_vars

\* records that earlier sessions may have left for the suite
TablePool ==
    {SeedRecord(FullSuite[1], v) :
        v \in {dittoVersion, VersionString(4, 12, 1), VersionString(4, 11, 5),
               VersionString(4, 10, 5), VersionString(4, 9, 4)}}
    \cup {SeedRecord(FullSuite[2], VersionString(4, 11, 5))}

\* what the run of a benchmark of .benchmark_all can end with
RunOutcomes == {"ok", "sentinel", "failed"}

\* the tables printed for any stored records and any outcomes of the runs
InitTable ==
    /\ benchmarks = FullSuite
    /\ typist = "patient"
    /\ budget = 0
    /\ procs = [p \in Procs |-> IdleProc]
    /\ store \in SUBSET TablePool
    /\ question = 0
    /\ clock = 1
    /\ NoSelection
    /\ cmpBaseline = Undefined
    /\ cmpCurrent = Undefined
    /\ cmpResult = [v \in Views |-> Rendered]
    /\ hashDefs = <<>>
    /\ hashResult = <<>>
    /\ tblInput \in [outcomes : [DOMAIN FullSuite -> RunOutcomes],
                     mean : {Num(2, 1)}, throws : BOOLEAN]
    /\ tblResult = [t \in TableCommands |-> NotPrinted]
    /\ NoImport
    /\ NoStatistics

NextTable == \E command \in TableCommands : PrintTable(command)

SpecTable == InitTable /\ [][NextTable]_vars

SpecOverlap == InitOverlap /\ [][Next]_vars

\* every engine call returns or throws, every prompt is answered
Returns ==
    \/ \E p \in Procs, throws \in BOOLEAN : GetBaselineReturns(p, throws)
    \/ \E p \in Procs, raw \in Answers : Answer(p, raw)
    \/ \E p \in Procs, throws \in BOOLEAN : PreReturns(p, throws)
    \/ \E p \in Procs, throws \in BOOLEAN, elapsed \in Timings, items \in ItemCounts :
          TimedReturns(p, throws, elapsed, items)
    \/ \E p \in Procs, throws \in BOOLEAN : LookupReturns(p, throws)
    \/ \E p \in Procs, throws \in BOOLEAN : SaveReturns(p, throws)
    \/ \E p \in Procs, throws \in BOOLEAN : PostReturns(p, throws)

FairSpec == Spec /\ WF_vars(Returns)

\* lines of an NDJSON file: records of the suite, a record with the _id of
\* another one, a line that is not JSON
ImportLines ==
    {Malformed, SeedRecord(FullSuite[1], dittoVersion),
     [SeedRecord(FullSuite[1], dittoVersion) EXCEPT !.metrics.runs = 2],
     SeedRecord(FullSuite[2], VersionString(4, 11, 9))}

\* nine valid lines and a malformed one
NineAndOne ==
    [n \in 1..10 |->
        IF n = 4 THEN Malformed
        ELSE SeedRecord(FullSuite[1 + (n % 2)], VersionString(4, 11, n % 10))]

\* fileContent.trim().split('\n') has at least one element
ImportedFiles ==
    UNION {[1..n -> ImportLines] : n \in 1..MaxLines} \cup {NineAndOne}

\* the import of any file at start-up, before the first prompt
InitImport ==
    /\ benchmarks = FullSuite
    /\ typist = "patient"
    /\ budget = 0
    /\ procs = [p \in Procs |-> IdleProc]
    /\ store = {}
    /\ question = 0
    /\ clock = 1
    /\ NoSelection
    /\ cmpBaseline = Undefined
    /\ cmpCurrent = Undefined
    /\ cmpResult = [v \in Views |-> Rendered]
    /\ hashDefs = <<>>
    /\ hashResult = <<>>
    /\ tblInput = <<>>
    /\ tblResult = [t \in TableCommands |-> NotPrinted]
    /\ impFile \in ImportedFiles
    /\ impState = ImportStart
    /\ NoStatistics

NextImport == \E throws \in BOOLEAN : ImportLine(throws)

SpecImport == InitImport /\ [][NextImport]_vars

\* elapsed milliseconds of a timed run
SampleValues == 0..2

\* long arrays, where floor(n * 0.95) and floor(n * 0.99) differ from n - 1
LongSamples ==
    {[j \in 1..n |-> IF j % m = 1 THEN 1 ELSE 0] :
        n \in {20, 21, 100}, m \in {1, 3, 7, 50}}

\* the arrays of at least one sample that the timed loop can leave
SampleArrays ==
    UNION {[1..n -> SampleValues] : n \in 1..MaxSamples} \cup LongSamples

\* the statistics of any array of samples
InitStats ==
    /\ benchmarks = FullSuite
    /\ typist = "patient"
    /\ budget = 0
    /\ procs = [p \in Procs |-> IdleProc]
    /\ store = {}
    /\ question = 0
    /\ clock = 1
    /\ NoSelection
    /\ cmpBaseline = Undefined
    /\ cmpCurrent = Undefined
    /\ cmpResult = [v \in Views |-> Rendered]
    /\ hashDefs = <<>>
    /\ hashResult = <<>>
    /\ tblInput = <<>>
    /\ tblResult = [t \in TableCommands |-> NotPrinted]
    /\ NoImport
    /\ statTimes \in SampleArrays
    /\ statDigest = <<>>

NextStats == Summarize

SpecStats == InitStats /\ [][NextStats]_vars

(***************************************************************************)
(* Properties.                                                             *)
(***************************************************************************)
SameMinor(v, w) ==
    parseVersion(v).major = parseVersion(w).major
    /\ parseVersion(v).minor = parseVersion(w).minor

\* the versions of S, most recent first
RECURSIVE RecentFirst(_)
RecentFirst(S) ==
    IF S = {} THEN <<>>
    ELSE LET first == CHOOSE x \in S : \A y \in S : compareVersions(x, y) <= 0
         IN  <<first>> \o RecentFirst(S \ {first})

Take(s, n) == SubSeq(s, 1, IF Len(s) < n THEN Len(s) ELSE n)

\* up to 3 patches of the current minor, then the latest patch of each of the
\* 2 most recent earlier minors of the same major
SelectedByRule(stored, current) ==
    LET pool    == stored \ {current}
        patches == {v \in pool : SameMinor(v, current)}
        earlier == {v \in pool : /\ parseVersion(v).major = parseVersion(current).major
                                 /\ parseVersion(v).minor < parseVersion(current).minor}
        latest  == {v \in earlier :
                      \A w \in earlier : SameMinor(v, w) => compareVersions(v, w) <= 0}
    IN  Take(RecentFirst(patches), 3) \o Take(RecentFirst(latest), 2)

\* C1: the comparison baselines returned for a hash are the up to 3 most
\* recent patches of the current minor followed by the latest patch of each of
\* at most 2 earlier minors
C1_SelectionFollowsRule ==
    (selResult.done /\ ~selResult.threw /\ budget = 0)
        => selResult.list = SelectedByRule(selStored, selCurrent)

\* C2: at most one execute call is in flight at any time
C2_OneExecuteInFlight == InFlight <= 1

BaselineProcs == {p \in Procs : procs[p].kind = "baseline"}

\* the record stored for benchmark b and the current version
CurrentRecord(b) ==
    getBaseline(store, generateBenchmarkHash(benchmarks[b].preQueries,
                                             benchmarks[b].query),
                dittoVersion, FALSE)

\* position k is the first conflict after position j in the log
NextConflict(log, j, k) ==
    /\ j < k
    /\ log[k].conflict
    /\ \A m \in DOMAIN log : (j < m /\ m < k) => ~log[m].conflict

\* C3: once "all" (resp. "none") is answered, the policy is ALL (resp. NONE)
\* for the rest of the invocation, no later conflict prompts, and every later
\* conflict is decided as overwrite (resp. skip)
C3_BatchAnswerIsSticky ==
    \A p \in BaselineProcs :
        LET c == procs[p] IN
        \A j \in DOMAIN c.log :
            (c.log[j].prompted /\ c.log[j].answer \in {"all", "none"}) =>
                /\ c.policy = c.log[j].answer
                /\ c.pc \notin {"prompt", "promptLost"}
                /\ c.log[j].overwrite = (c.log[j].answer = "all")
                /\ \A k \in DOMAIN c.log :
                      (j < k /\ c.log[k].conflict) =>
                          /\ ~c.log[k].prompted
                          /\ c.log[k].overwrite = (c.log[j].answer = "all")

\* "all" at the first conflict, the two later conflicts overwritten unprompted
C3_Witness ==
    \E p \in BaselineProcs :
        LET c == procs[p] IN
        /\ Len(c.log) = 3
        /\ c.log[1].prompted /\ c.log[1].answer = "all"
        /\ \A k \in {2, 3} : c.log[k].conflict /\ ~c.log[k].prompted /\ c.log[k].overwrite
        /\ CurrentRecord(2) # NoRecord
        /\ CurrentRecord(2).metrics.timestamp > 0

\* C4: "yes" and "no" decide the conflict they answer and nothing else: the
\* policy stays ASK and the next conflict prompts again
C4_YesNoIsOneShot ==
    \A p \in BaselineProcs :
        LET c == procs[p] IN
        \A j \in DOMAIN c.log :
            (c.log[j].prompted /\ c.log[j].answer \in {"yes", "no"}) =>
                /\ c.log[j].overwrite = (c.log[j].answer = "yes")
                /\ (j = Len(c.log) => c.policy = "ask")
                /\ \A k \in DOMAIN c.log :
                      NextConflict(c.log, j, k) => c.log[k].prompted

\* "no" then "yes": two prompts, the first record kept, the second replaced
C4_Witness ==
    \E p \in BaselineProcs :
        LET c == procs[p] IN
        /\ Len(c.log) >= 2
        /\ c.log[1].prompted /\ c.log[1].answer = "no"
        /\ c.log[2].prompted /\ c.log[2].answer = "yes"
        /\ CurrentRecord(1) # NoRecord /\ CurrentRecord(1).metrics.timestamp = 0
        /\ CurrentRecord(2) # NoRecord /\ CurrentRecord(2).metrics.timestamp > 0

\* C5: "N" or Enter skips the current baseline only: the policy stays ASK and
\* the next conflict prompts again
C5_DefaultAnswerSkipsOne ==
    \A p \in BaselineProcs :
        LET c == procs[p] IN
        \A j \in DOMAIN c.log :
            (c.log[j].prompted /\ c.log[j].answer \in {"N", ""}) =>
                /\ ~c.log[j].overwrite
                /\ (j = Len(c.log) => c.policy = "ask")
                /\ \A k \in DOMAIN c.log :
                      NextConflict(c.log, j, k) => c.log[k].prompted

\* the step of invocation p that decides a conflict as a skip
SkipStep(p) ==
    /\ procs[p].kind = "baseline"
    /\ Len(procs'[p].log) = Len(procs[p].log) + 1
    /\ procs'[p].log[Len(procs'[p].log)].conflict
    /\ ~procs'[p].log[Len(procs'[p].log)].overwrite

\* C6: a conflict decided as a skip leaves the store as it is, executes no
\* statement of the benchmark and moves on to the next benchmark
C6_SkipLeavesRecord ==
    [][\A p \in Procs :
          SkipStep(p) =>
              /\ store' = store
              /\ procs[p].issued = <<>> /\ procs'[p].issued = <<>>
              /\ procs'[p].skipped = procs[p].skipped
              /\ procs'[p].i = procs[p].i + 1
              /\ procs'[p].pc = IF procs'[p].i > Len(procs'[p].list)
                                THEN "done" ELSE "getBaseline"]_vars

\* the first conflict was answered "no"; the seed record is still stored and
\* the existence check of the second benchmark is pending
C6_Witness ==
    \E p \in BaselineProcs :
        LET c == procs[p] IN
        /\ Len(c.log) = 1 /\ c.log[1].conflict /\ ~c.log[1].overwrite
        /\ c.i = 2 /\ c.pc = "getBaseline" /\ c.issued = <<>>
        /\ CurrentRecord(1) # NoRecord /\ CurrentRecord(1).metrics.timestamp = 0

\* C7: every invocation starts with the policy ASK, whatever was chosen in an
\* earlier invocation: its first conflict always prompts
C7_PolicyStartsAsAsk ==
    \A p \in BaselineProcs :
        LET c == procs[p] IN
        /\ (c.pc # "done" /\ \A j \in DOMAIN c.log : ~c.log[j].prompted)
              => c.policy = "ask"
        /\ \A k \in DOMAIN c.log :
              (c.log[k].conflict /\ \A j \in DOMAIN c.log : j < k => ~c.log[j].conflict)
                  => c.log[k].prompted

\* the first invocation ended with ALL, the second one has prompted
C7_Witness ==
    /\ procs[1].kind = "baseline" /\ procs[1].pc = "done" /\ procs[1].policy = "all"
    /\ procs[2].kind = "baseline" /\ Len(procs[2].log) >= 1
    /\ procs[2].log[1].prompted

\* number of executions of statement stmt in the sequence issued
Executions(issued, stmt) == Cardinality({n \in DOMAIN issued : issued[n] = stmt})

\* the step in which a timed execution of invocation p throws
TimedThrows(p) ==
    /\ procs[p].pc = "timed"
    /\ procs'[p] # procs[p]
    /\ procs'[p].outcome = "threw"

\* C8: when a timed repetition throws, the query is not executed again, the
\* caller's catch block is not entered, and the result is the digest of -1s
\* with no samples
C8_TimedFailureGivesSentinel ==
    [][\A p \in Procs :
          TimedThrows(p) =>
              LET r == procs'[p].returned IN
              /\ r # NoResults
              /\ r.mean = Num(-1, 1) /\ r.median = Num(-1, 1)
              /\ r.min = Num(-1, 1) /\ r.max = Num(-1, 1)
              /\ r.stdDev = Num(-1, 1) /\ r.p95 = Num(-1, 1)
              /\ r.p99 = Num(-1, 1) /\ r.resultCount = -1
              /\ r.times = <<>>
              /\ procs'[p].skipped = procs[p].skipped
              /\ procs'[p].i = procs[p].i =>
                    /\ procs'[p].pc # "timed"
                    /\ Executions(procs'[p].issued, Bench(procs[p]).query)
                          = Executions(procs[p].issued, Bench(procs[p]).query)]_vars

\* the second of three repetitions threw: two executions, the sentinel, cleanup
C8_Witness ==
    \E p \in Procs :
        LET c == procs[p] IN
        /\ c.pc = "post" /\ c.runCount = 3 /\ c.outcome = "threw"
        /\ c.returned.resultCount = -1 /\ c.returned.times = <<>>
        /\ Executions(c.issued, Bench(c).query) = 2

HasSentinel(c) == c.results # NoResults /\ ~IsNotMinusOne(c.results.mean)

\* C9: after a run that returned mean = -1 there is no upsert, no baseline
\* lookup and no change of the store; no stored record has mean -1
C9_SentinelNeverStored ==
    /\ [](/\ \A p \in Procs :
                HasSentinel(procs[p]) =>
                    /\ procs[p].pc \notin {"save", "cmpList", "cmpCur", "colList",
                                           "colCur", "sumList", "sumCur"}
                    /\ procs[p].doc = NoRecord
          /\ \A r \in store : IsNotMinusOne(r.metrics.mean))
    /\ [][\A p \in Procs :
             (HasSentinel(procs[p]) /\ procs'[p] # procs[p]) => store' = store]_vars

\* an overwrite was granted, the run returned the sentinel, the seed remains
C9_Witness ==
    \E p \in BaselineProcs :
        LET c == procs[p] IN
        /\ c.pc = "post" /\ c.i = 1 /\ HasSentinel(c)
        /\ Len(c.log) = 1 /\ c.log[1].overwrite
        /\ CurrentRecord(1) # NoRecord /\ CurrentRecord(1).metrics.timestamp = 0

\* C10: in .benchmark_all and .benchmark_baseline the loop visits the
\* benchmarks one by one in list order, ends only after the last one, and a
\* started batch ends when every engine call and prompt returns
C10_BatchRunsToSummary ==
    /\ [](\A p \in Procs :
             (procs[p].kind \in {"all", "baseline"} /\ procs[p].list # <<>>) =>
                 /\ procs[p].i \in 1..(Len(procs[p].list) + 1)
                 /\ procs[p].pc = "done" <=> procs[p].i = Len(procs[p].list) + 1)
    /\ [][\A p \in Procs :
             (procs[p].list # <<>> /\ procs'[p].list # <<>>) =>
                 procs'[p].i \in {procs[p].i, procs[p].i + 1}]_vars
    /\ \A p \in Procs : (procs[p].pc \notin {"idle", "done"}) ~> (procs[p].pc = "done")

\* a batch over three benchmarks has ended although a benchmark failed
C10_Witness ==
    \E p \in Procs :
        /\ procs[p].pc = "done" /\ Len(procs[p].list) = 3 /\ procs[p].i = 4
        /\ procs[p].skipped >= 1

\* the step in which invocation p is done with its current benchmark
LeavesBenchmark(p) ==
    /\ procs[p].pc \notin {"idle", "done"}
    /\ procs'[p].i = procs[p].i + 1 \/ procs'[p].pc = "done"

\* the positions of statement stmt in the sequence issued
Positions(issued, stmt) == {n \in DOMAIN issued : issued[n] = stmt}

\* C11: when a command is done with a benchmark whose timed loop was entered,
\* every postQuery of the benchmark has been executed exactly once, after the
\* last timed execution
C11_CleanupRunsOnce ==
    [][\A p \in Procs :
          (/\ LeavesBenchmark(p)
           /\ Positions(procs[p].issued, Bench(procs[p]).query) # {}) =>
              \A n \in DOMAIN Bench(procs[p]).postQueries :
                  LET at == Positions(procs[p].issued, Bench(procs[p]).postQueries[n])
                  IN  /\ Cardinality(at) = 1
                      /\ \A a \in at :
                            \A t \in Positions(procs[p].issued, Bench(procs[p]).query) :
                                t < a]_vars

\* the step in which a cleanup statement of invocation p throws
PostThrows(p) ==
    /\ procs[p].pc \in {"post", "postFail"}
    /\ procs'[p] # procs[p]
    /\ procs'[p].outcome = "threw"

\* C12: a postQuery that throws is swallowed: the top-level handler is not
\* reached, the benchmark is not counted as failed, and the next postQuery
\* (or, after the last one, the rest of the command) follows
C12_CleanupFailureSwallowed ==
    [][\A p \in Procs :
          PostThrows(p) =>
              LET c == procs[p]
                  d == procs'[p]
                  post == Bench(c).postQueries
              IN  /\ ~d.caught
                  /\ d.skipped = c.skipped
                  /\ IF c.k < Len(post)
                     THEN /\ d.pc = c.pc /\ d.k = c.k + 1
                          /\ d.issued = Append(c.issued, post[c.k + 1])
                     ELSE d.i = c.i + 1]_vars

\* the step in which a setup statement of invocation p throws
PreThrows(p) ==
    /\ procs[p].pc = "pre"
    /\ procs'[p] # procs[p]
    /\ procs'[p].outcome = "threw"

\* C13: after a preQuery has thrown, the cleanup of the benchmark is attempted:
\* its first postQuery is the next statement sent to the engine
C13_CleanupAfterSetupFailure ==
    [][\A p \in Procs :
          (PreThrows(p) /\ Bench(procs[p]).postQueries # <<>>) =>
              /\ procs'[p].pc \in {"post", "postFail"}
              /\ procs'[p].issued =
                    Append(procs[p].issued, Bench(procs[p]).postQueries[1])]_vars

\* n executions of the same statement
Rep(stmt, n) == [j \in 1..n |-> stmt]

\* the statements sent for the current benchmark are a prefix of its
\* preQueries, then executions of its query, then a prefix of its postQueries
InOrder(c) ==
    LET b == Bench(c) IN
    \E a \in 0..Len(b.preQueries), t \in 0..c.runCount, z \in 0..Len(b.postQueries) :
        /\ c.issued = SubSeq(b.preQueries, 1, a) \o Rep(b.query, t)
                         \o SubSeq(b.postQueries, 1, z)
        /\ t > 0 => a = Len(b.preQueries)

\* the timed loop of the current benchmark of p has run to its end
TimedLoopCompleted(p) ==
    \/ procs[p].pc = "timed" /\ procs'[p].outcome = "ok"
    \/ procs[p].results # NoResults /\ IsNotMinusOne(procs[p].results.mean)

AtPrompt(p) == procs[p].pc = "done"

\* C15: a command line typed at the prompt starts a handler that ends with
\* rl.prompt(): at once when the line is rejected, otherwise when its engine
\* calls and questions have returned; an error that reaches the top-level
\* handler is followed by rl.prompt() in the same step
C15_LineReturnsToPrompt ==
    /\ \A p \in Procs : (procs[p].pc # "idle") ~> AtPrompt(p)
    /\ [](\A p \in Procs : procs[p].caught => AtPrompt(p))
    /\ [][\A p \in Procs :
             (procs[p].pc = "idle" /\ procs'[p].pc # "idle") =>
                 \/ AtPrompt(p)'
                 \/ procs'[p].pc \in EnginePcs]_vars

\* a setup statement of .benchmark threw and the handler is back at the prompt
C15_Witness ==
    \E p \in Procs :
        /\ AtPrompt(p) /\ procs[p].caught /\ procs[p].kind = "benchmark"
        /\ procs[p].outcome = "threw"

\* x <= n for an integer n
AtMost(x, n) == x.num <= n * x.den

\* x >= n for an integer n
AtLeast(x, n) == x.num >= n * x.den

\* the classes of the reference rule that the pair falls into
ClassesOf(baseline, current) ==
    LET diff == Sub(current, baseline)
        pct  == Times100(Div(diff, baseline))
    IN  IF Lt(baseline, 10)
        THEN {k \in {"no change", "improvement", "small regression", "large regression"} :
                CASE k = "no change" -> Lt(MathAbs(diff), 1)
                  [] k = "improvement" -> AtMost(diff, -1)
                  [] k = "small regression" -> AtLeast(diff, 1) /\ Lt(diff, 2)
                  [] k = "large regression" -> AtLeast(diff, 2)}
        ELSE {k \in {"no change", "improvement", "small regression", "large regression"} :
                CASE k = "no change" -> Lt(MathAbs(pct), 5)
                  [] k = "improvement" -> AtMost(pct, -5)
                  [] k = "small regression" -> AtLeast(pct, 5) /\ Lt(pct, 15)
                  [] k = "large regression" -> AtLeast(pct, 15)}

\* the colour in which each class is printed
ColourOf(class) ==
    CASE class = "no change" -> "blue"
      [] class = "improvement" -> "green"
      [] class = "small regression" -> "yellow_highlight"
      [] class = "large regression" -> "red"

DeltaForm(cell) ==
    IF cell.error # "" \/ cell.literal # "" THEN "none"
    ELSE IF cell.unit = "%" THEN "percent"
    ELSE "milliseconds"

\* C17: for the same pair of means the three views render a difference with
\* the same colour and in the same form: milliseconds when the baseline is
\* below 10 ms, percent otherwise
C17_SameClassifierInAllViews ==
    \A v \in Views :
        cmpResult[v] # Rendered =>
            /\ DeltaForm(cmpResult[v]) =
                  IF Lt(cmpBaseline, 10) THEN "milliseconds" ELSE "percent"
            /\ \A w \in Views :
                  cmpResult[w] # Rendered =>
                      cmpResult[v].color = cmpResult[w].color

\* x = n for an integer n
IsExactly(x, n) == x.kind = "num" /\ x.num = n * x.den

\* x > n for an integer n
MoreThan(x, n) == x.kind = "num" /\ x.num > n * x.den

\* C18: a table cell is coloured as the legend says at the limits: a
\* difference of exactly 1 ms (baseline below 10 ms) or exactly 5% is blue, a
\* regression of exactly 2 ms or exactly 15% is yellow, and a red cell is a
\* regression of more than 2 ms or more than 15%
C18_LegendMatchesLimits ==
    LET cell == cmpResult["all"]
        diff == Sub(cmpCurrent, cmpBaseline)
        pct  == Times100(Div(diff, cmpBaseline))
        amount == IF Lt(cmpBaseline, 10) THEN diff ELSE pct
        small  == IF Lt(cmpBaseline, 10) THEN 1 ELSE 5
        large  == IF Lt(cmpBaseline, 10) THEN 2 ELSE 15
    IN  cell # Rendered =>
            /\ IsExactly(MathAbs(amount), small) => cell.color = "blue"
            /\ IsExactly(amount, large) => cell.color = "yellow_highlight"
            /\ cell.color = "red" => MoreThan(amount, large)

\* C19: two definitions have the same fingerprint exactly when they have the
\* same preQueries and the same query
C19_FingerprintTellsDefinitionsApart ==
    hashResult # <<>> =>
        (hashResult[1] = hashResult[2] <=> hashDefs[1] = hashDefs[2])

\* C20: the collection never holds two records with the same hash and the
\* same ditto_version
C20_OneRecordPerHashAndVersion ==
    \A r \in store : \A q \in store :
        (r.id.hash = q.id.hash /\ r.id.ditto_version = q.id.ditto_version) => r = q

\* x <= y for two numbers; false when either is NaN or undefined
NumLeq(x, y) ==
    /\ x.kind = "num" /\ y.kind = "num"
    /\ x.num * y.den <= y.num * x.den

\* the digest of at least one sample: ordered, defined, non-negative
WellFormedMetrics(m) ==
    /\ m.runs >= 1
    /\ NumLeq(Num(0, 1), m.min)
    /\ NumLeq(m.min, m.median) /\ NumLeq(m.median, m.max)
    /\ NumLeq(m.min, m.mean) /\ NumLeq(m.mean, m.max)

\* C21: every record of the collection has runs >= 1 and a digest with
\* 0 <= min <= median <= max and min <= mean <= max, all of them numbers
C21_StoredDigestWellFormed ==
    \A r \in store : WellFormedMetrics(r.metrics)

\* C22: a benchmark of .benchmark_all whose run returned the sentinel or
\* failed has a row in the summary table, and the cell of the current run in
\* that row is N/A
C22_UnsupportedRowShowsNA ==
    tblResult["all"] # NotPrinted =>
        \A b \in DOMAIN benchmarks :
            tblInput.outcomes[b] \in {"sentinel", "failed"} =>
                /\ b \in DOMAIN tblResult["all"].rows
                /\ tblResult["all"].rows[b][1] = Literal("N/A")

\* the columns of a table that are versions of stored records
Historical(table) ==
    {n \in DOMAIN table.versions :
        /\ table.versions[n] # dittoVersion
        /\ ~EndsWithBaseline(table.versions[n])}

\* C23: in both tables the first column is the current version and the
\* columns of the stored versions follow from the most recent to the oldest
C23_ColumnsByVersionDescending ==
    \A t \in TableCommands :
        tblResult[t].printed = "table" =>
            /\ tblResult[t].versions[1] = dittoVersion
            /\ \A n \in Historical(tblResult[t]) : \A m \in Historical(tblResult[t]) :
                  n < m => compareVersions(tblResult[t].versions[n],
                                           tblResult[t].versions[m]) < 0

\* awaits of getBaseline and getComparisonBaselines
LookupPcs ==
    {"getBaseline", "cmpList", "cmpCur", "colList", "colCur", "sumList", "sumCur"}

\* the hash and the stored versions of benchmark b
HashOf(b) == generateBenchmarkHash(benchmarks[b].preQueries, benchmarks[b].query)

VersionsOf(b) == {r.id.ditto_version : r \in RecordsOf(store, HashOf(b))}

\* C24: a lookup gives "absent" (getBaseline) or the empty list
\* (getComparisonBaselines) when nothing matches and when the engine throws;
\* in a command the step after a lookup never enters a catch block, and after
\* an existence check that found nothing or threw the benchmark is run
C24_LookupsNeverRaise ==
    /\ [](\A b \in DOMAIN benchmarks :
             /\ getBaseline(store, HashOf(b), dittoVersion, TRUE) = NoRecord
             /\ getComparisonBaselines(VersionsOf(b), dittoVersion, TRUE) = <<>>
             /\ VersionsOf(b) = {} =>
                   /\ getBaseline(store, HashOf(b), dittoVersion, FALSE) = NoRecord
                   /\ getComparisonBaselines(VersionsOf(b), dittoVersion, FALSE) = <<>>)
    /\ [][\A p \in Procs :
             (procs[p].pc \in LookupPcs /\ procs'[p] # procs[p]) =>
                 LET c == procs[p]
                     d == procs'[p]
                 IN  /\ ~d.caught
                     /\ d.skipped = c.skipped
                     /\ d.pc # "postFail"
                     /\ (/\ c.pc = "getBaseline"
                         /\ d.outcome = "threw" \/ VersionsOf(c.list[c.i]) = {}) =>
                            /\ Len(d.log) = Len(c.log) + 1
                            /\ ~d.log[Len(d.log)].conflict
                            /\ d.i = c.i
                            /\ d.issued # <<>> \/ d.pc = "save"]_vars

\* the existence check of a first baseline run on an empty collection threw
\* and the setup of the benchmark is running
C24_Witness ==
    \E p \in Procs :
        LET c == procs[p] IN
        /\ store = {} /\ c.kind = "baseline" /\ c.i = 1 /\ c.pc = "pre"
        /\ c.k = 1 /\ c.outcome = "threw" /\ Len(c.log) = 1

\* C25: every line of the file is handled, in order, whatever happened to the
\* lines before it: a line that does not parse or whose insert throws adds
\* one to errorCount and leaves the collection, any other line adds one to
\* successCount and is in the collection afterwards; after the last line
\* successCount + errorCount is the number of lines, 9 and 1 for nine valid
\* lines and a malformed one whose inserts succeed
C25_ImportCountsEveryLine ==
    /\ [](/\ impState.successCount + impState.errorCount = impState.pos
          /\ impState.pos <= Len(impFile)
          /\ (impFile = NineAndOne /\ impState.pos = Len(impFile)
              /\ impState.threw = 0) =>
                 (impState.successCount = 9 /\ impState.errorCount = 1))
    /\ [][impState' # impState =>
             LET line == impFile[impState.pos + 1] IN
             /\ impState'.pos = impState.pos + 1
             /\ IF line = Malformed \/ impState'.threw > impState.threw
                THEN /\ impState'.errorCount = impState.errorCount + 1
                     /\ impState'.successCount = impState.successCount
                     /\ store' = store
                ELSE /\ impState'.successCount = impState.successCount + 1
                     /\ impState'.errorCount = impState.errorCount
                     /\ line \in store']_vars

\* a file whose first line is malformed has been imported to its end and a
\* later line is in the collection
C25_Witness ==
    /\ Len(impFile) = 3 /\ impFile[1] = Malformed /\ impFile[3] # Malformed
    /\ impState.pos = 3 /\ impState.errorCount = 2 /\ impState.successCount = 1
    /\ impFile[3] \in store

\* the elements of an array of samples, as numbers
Elements(times) == {Num(times[j], 1) : j \in 1..Len(times)}

\* C26: the statistics of n >= 1 non-negative samples satisfy
\* min <= median <= max, min <= mean <= max, min <= p95 <= p99 <= max and
\* stdDev >= 0; floor(n * 0.95) and floor(n * 0.99) are at most n - 1, p95 and
\* p99 are elements of the sample
C26_DigestOrdered ==
    statDigest # <<>> =>
        LET d == statDigest
            n == Len(statTimes)
        IN  /\ NumLeq(d.min, d.median) /\ NumLeq(d.median, d.max)
            /\ NumLeq(d.min, d.mean) /\ NumLeq(d.mean, d.max)
            /\ NumLeq(d.min, d.p95) /\ NumLeq(d.p95, d.p99)
            /\ NumLeq(d.p99, d.max)
            /\ NumLeq(Num(0, 1), d.stdDev)
            /\ (n * 95) \div 100 <= n - 1
            /\ (n * 99) \div 100 <= n - 1
            /\ d.p95 \in Elements(statTimes)
            /\ d.p99 \in Elements(statTimes)
            /\ d.min \in Elements(statTimes)
            /\ d.max \in Elements(statTimes)

\* the statistics of 21 samples given in descending order, where p95 is below
\* p99 and index 19 is not the last one
C26_Witness ==
    /\ Len(statTimes) = 21 /\ statTimes[1] = 1 /\ statTimes[2] = 0
    /\ statDigest # <<>>
    /\ statDigest.p95 = Num(0, 1) /\ statDigest.p99 = Num(1, 1)
    /\ statDigest.min = Num(0, 1)

\* C27: no baseline of the comparison list has the current version, and the
\* listing shown after a run has at most one entry of the current version,
\* the current baseline, followed by the comparison list
C27_CurrentVersionNotCompared ==
    selResult.done =>
        /\ \A k \in DOMAIN selResult.list : selResult.list[k] # selCurrent
        /\ Cardinality({k \in DOMAIN selResult.shown :
                            selResult.shown[k] = selCurrent}) <= 1
        /\ \A k \in DOMAIN selResult.shown :
               selResult.shown[k] = selCurrent => k = 1
        /\ Len(selResult.shown) <= Len(selResult.list) + 1

\* a record of the current version is stored with two others; it is listed
\* first as the current baseline, the others were returned for comparison
C27_Witness ==
    /\ selResult.done /\ ~selResult.threw
    /\ selCurrent \in selStored
    /\ Len(selResult.list) = 2
    /\ Len(selResult.shown) = 3
    /\ selResult.shown[1] = selCurrent

\* the awaits of the queries on the baseline collection
StorePcs ==
    {"getBaseline", "cmpList", "cmpCur", "colList", "colCur", "sumList",
     "sumCur", "save", "showList"}

\* C28: the collection changes only in a step in which the upsert of a
\* .benchmark_baseline returns; .bench, .benchmark, .benchmark_all and
\* .benchmark_show never wait for an insert, and .bench waits for no query on
\* the collection at all
C28_OnlyBaselineCommandWrites ==
    /\ [](\A p \in Procs :
            /\ procs[p].kind \in {"bench", "benchmark", "all", "show"} =>
                  procs[p].pc # "save"
            /\ procs[p].kind = "bench" => procs[p].pc \notin StorePcs)
    /\ [][store' # store =>
             \E p \in Procs : /\ procs[p].kind = "baseline"
                              /\ procs[p].pc = "save"
                              /\ procs'[p].pc # "save"]_vars

\* .bench has run its query 20 times and returned, on a seeded collection
C28_Witness ==
    \E p \in Procs :
        /\ procs[p].kind = "bench" /\ procs[p].pc = "done"
        /\ procs[p].returned # NoResults
        /\ IsNotMinusOne(procs[p].returned.mean)
        /\ Len(procs[p].issued) = AdHocRuns
        /\ store = SeededStore(FullSuite)

\* C29: when the upsert of .benchmark_baseline replaces a record that is in
\* the collection under the _id of the new document, the decision logged for
\* that benchmark was to overwrite a conflict: the user answered yes or all at
\* its prompt, or the policy was "all"
C29_OverwriteOnlyWithConsent ==
    [][\A p \in Procs :
          (/\ procs[p].kind = "baseline"
           /\ procs[p].pc = "save"
           /\ procs'[p].pc # "save"
           /\ procs'[p].outcome = "ok"
           /\ \E r \in store : r.id = procs[p].doc.id)
          => LET e == procs[p].log[Len(procs[p].log)]
             IN  e.pos = procs[p].i /\ e.conflict /\ e.overwrite]_vars

\* the invocations of .benchmark_baseline that have printed their summary
Summarized ==
    {p \in Procs : /\ procs[p].kind = "baseline" /\ procs[p].pc = "done"
                   /\ procs[p].list # <<>>}

\* C30: the "Baselines Created" number of the summary is the number of
\* records upserted by the invocation, and "All baselines created
\* successfully" is printed only when every benchmark of the batch was saved
C30_CreatedCountsUpserts ==
    \A p \in Summarized :
        LET summary == BaselineSummary(procs[p])
        IN  /\ summary.created = procs[p].saved
            /\ summary.allCreated => procs[p].saved = Len(procs[p].list)

====
